---- MODULE Spec2Model ----
(***************************************************************************)
(* bldr: the watch-mode orchestration engine of packages/bldr.             *)
(*                                                                         *)
(* Part 1 models the per-path operation queue of core/builder.ts           *)
(* (queuedOperation, lines 184-198) at the granularity of the JavaScript   *)
(* event loop: one action per macrotask (a watcher event calling           *)
(* queuedOperation, an operation's I/O finishing), each action running the *)
(* whole microtask drain that the macrotask causes.                        *)
(***************************************************************************)
EXTENDS Integers, Sequences, FiniteSets, TLC

\* ------------------------------------------------------------------ bounds
\* SpecQueue: number of queuedOperation calls and of distinct paths.
MaxCalls == 4
NumKeys == 2
\* SpecCeiling: calls enqueued at once beyond the ceiling, paths whose removal
\* may fail, and calls arriving after the burst.
Extra == 2
FailKeys == 1
LateCalls == 1

\* --------------------------------------------------------- program constants
MAX_CONCURRENT_OPERATIONS == 10

VARIABLES
  operationQueue,  \* Map<string, Promise<void>>: key -> id of the call whose promise is stored
  callState,       \* per queuedOperation call: where the call is
  callKey,         \* per call: its key argument (0 before the call is made)
  callErr,         \* per call: 0, or the id of the call whose operation's error it rejected with
  reactions,       \* per stored promise (by call id): the calls awaiting it, in registration order
  opResult         \* history, per call: "none", or how the operation it started ended ("ok", "failed")

VARIABLES
  watch,         \* args.watch
  phase,         \* where build() is
  exitCode,      \* the code the process exited with ("none" while it lives)
  exitedVia,     \* which process.exit ended it
  inProgress,    \* shutdown.inProgress
  sd,            \* where the running shutdown() is
  sdCode,        \* the code argument of the running shutdown()
  ui,            \* state.ui: "none", "up" or "destroyed"
  watcher,       \* state.watcher: "none", "open", "closing", "closed" or "closeFailed"
  pipes,         \* setupOutputPipe attached the exit handlers
  procOs,        \* per child process: "none", "alive", "exited" or "failed" (never started)
  procKilled,    \* per child process: ChildProcess.killed
  signals,       \* per child process: the signals delivered to it
  killWait,      \* per long-running child: the promise killProcess returned
  teardownRuns,  \* history: how often the body of shutdown() was entered
  closeCalls,    \* history: how often watcher.close() was called
  firstCode,     \* history: the code of the first shutdown trigger
  lateCodes,     \* history: the codes of the triggers that found a shutdown in progress
  firstKind,     \* history: what the first shutdown trigger was
  liveAtShutdown,\* history: the watch instances alive when the body of shutdown() was entered
  sdTrace,       \* history: the steps shutdown() has taken, in order
  procCode,      \* history, per child process: the code of its exit event ("none" before)
  outDir,        \* the output directory: "stale", "empty", "partial" or "emitted"
  outAtStart,    \* history: outDir when build() was called
  outAtSpawn,    \* history: outDir when run("tsc") spawned the compiler
  surfaced,      \* whose error main's catch printed: "none", "tsc1", "alias1" or "rm"
  warned,        \* the initial-build failure was written to the display
  outputTo       \* history: where the watch instances' last output or error went:
                 \* "none", "display", "dropped" or "destroyed" (a display already torn down)

VARIABLES
  outTree,         \* the files under the output directory, as a set of paths
  dirRemovals,     \* the source directories whose mirrored removal is in flight
  lastRemoval      \* history: the removal that completed last, and how

VARIABLES
  pathIn,          \* SpecPaths: the source file passed to removeEmittedForSource
  pathOut,         \* SpecPaths: the paths it passed to rmIfExists
  runCmd,          \* SpecRun: the cmd argument of run()
  runState,        \* SpecRun: "none", "running", "grace", "resolved" or "rejected"
  runOutput,       \* SpecRun: the output captured so far, a sequence of characters
  runCode,         \* SpecRun: the code of the exit event ("none" before it)
  runError         \* SpecRun: the error run() rejected with

VARIABLES
  options,         \* SpecConfig: parsed.options of the tsconfig, its outDir and rootDir
  cfg,             \* SpecConfig: what readTsConfig returned or threw
  dirs,            \* SpecConfig: rootDirAbs and outDirAbs of build()
  rmTarget,        \* SpecConfig: the directory build() passed to rmIfExists
  argv,            \* SpecArgs: process.argv.slice(2), a sequence of tokens
  args,            \* SpecArgs: what parseArgs returned, or how it ended
  mainPc           \* SpecArgs: where main() is

svars == <<outTree, dirRemovals, lastRemoval>>
cvars == <<options, cfg, dirs, rmTarget, argv, args, mainPc>>
xvars == <<pathIn, pathOut, runCmd, runState, runOutput, runCode, runError, cvars>>
qvars == <<operationQueue, callState, callKey, callErr, reactions, opResult, svars, xvars>>
ovars == <<watch, phase, exitCode, exitedVia, inProgress, sd, sdCode, ui, watcher,
           pipes, procOs, procKilled, signals, killWait, teardownRuns, closeCalls,
           firstCode, lateCodes, firstKind, liveAtShutdown, sdTrace, procCode,
           outDir, outAtStart, outAtSpawn, surfaced, warned, outputTo>>
vars == <<qvars, ovars>>

Calls == DOMAIN callState
NoRemoval == [kind |-> "none"]
NoError == [kind |-> "none"]

Nothing == [kind |-> "none"]

\* Nothing of SpecConfig and SpecArgs is in use.
NoConfigNoArgs ==
  /\ options = Nothing /\ cfg = Nothing /\ dirs = Nothing /\ rmTarget = Nothing
  /\ argv = <<>> /\ args = Nothing /\ mainPc = "none"

\* Nothing of SpecPaths, SpecRun, SpecConfig and SpecArgs is in use.
NoPathNoRun ==
  /\ NoConfigNoArgs
  /\ pathIn = <<>> /\ pathOut = {}
  /\ runCmd = "none" /\ runState = "none" /\ runOutput = <<>>
  /\ runCode = "none" /\ runError = NoError

\* ------------------------------------------------------------ Map primitives
MapSize(q) == Cardinality(DOMAIN q)
MapHas(q, k) == k \in DOMAIN q
MapDelete(q, k) == [x \in (DOMAIN q) \ {k} |-> q[x]]
MapSet(q, k, v) == [x \in (DOMAIN q) \cup {k} |-> IF x = k THEN v ELSE q[x]]
MapValues(q) == {q[x] : x \in DOMAIN q}

\* The queue state as one value, so that a microtask drain can be folded over it.
QState == [q |-> operationQueue, st |-> callState, key |-> callKey,
           err |-> callErr, re |-> reactions]

\* Faulty variant: one key too many is let in (> for >=).
AtCeilingOffByOne(q) == MapSize(q) > MAX_CONCURRENT_OPERATIONS

\* while (operationQueue.size >= MAX_CONCURRENT_OPERATIONS)
AtCeiling(q) == MapSize(q) >= MAX_CONCURRENT_OPERATIONS

\* const promise = operation().finally(...); operationQueue.set(key, promise)
StartOperation(s, c) ==
  [s EXCEPT !.q = MapSet(s.q, s.key[c], c), !.st[c] = "running"]

\* A call that resumes is no longer a reaction of any promise it had raced on.
Unregister(re, c) == [p \in DOMAIN re |-> SelectSeq(re[p], LAMBDA w : w # c)]

\* await Promise.race(operationQueue.values()): a reaction on every stored promise
AwaitRace(s, c) ==
  [s EXCEPT !.st[c] = "awaitRace",
            !.re = [p \in DOMAIN s.re |->
                      IF p \in MapValues(s.q) THEN Append(s.re[p], c) ELSE s.re[p]]]

\* The while loop and what follows it.
CeilingLoop(s, c) ==
  IF AtCeiling(s.q) THEN AwaitRace(s, c) ELSE StartOperation(s, c)

\* The synchronous part of queuedOperation(key, operation), up to its first await.
CallQueuedOperation(s, c, k) ==
  LET s1 == [s EXCEPT !.key[c] = k]
  IN  IF MapHas(s.q, k)
        THEN [s1 EXCEPT !.st[c] = "awaitExisting", !.re[s.q[k]] = Append(@, c)]
        ELSE CeilingLoop(s1, c)

\* Faulty variant: a woken call starts at once (if instead of while at the ceiling).
ResumeWithoutRecheck(s, w, ok, e) ==
  LET s1 == [s EXCEPT !.re = Unregister(s.re, w)]
  IN  IF ok THEN StartOperation(s1, w)
            ELSE [s1 EXCEPT !.st[w] = "rejected", !.err[w] = e]

\* A suspended call resumes because the promise it awaits settled: a fulfilled
\* promise lets it continue at the while loop (the key is not looked up again), a
\* rejected one makes the await throw, so the call rejects with that error.
Resume(s, w, ok, e) ==
  LET s1 == [s EXCEPT !.re = Unregister(s.re, w)]
  IN  IF ok THEN CeilingLoop(s1, w)
            ELSE [s1 EXCEPT !.st[w] = "rejected", !.err[w] = e]

RECURSIVE Drain(_, _, _, _)
Drain(s, ws, ok, e) ==
  IF ws = <<>> THEN s
  ELSE Drain(Resume(s, Head(ws), ok, e), Tail(ws), ok, e)

\* Faulty variant: the key is deleted only after a successful operation (then
\* instead of finally).
ThenDelete(q, k, ok) == IF ok THEN MapDelete(q, k) ELSE q

\* finally(() => operationQueue.delete(key)): runs whether the operation resolved
\* or rejected, and whatever is stored under the key goes.
FinallyDelete(q, k, ok) == MapDelete(q, k)

\* Faulty variant: the failure of the operation is swallowed (a catch handler
\* that returns normally is chained to the promise).
ReturnedPromiseSwallows(c, ok) == [st |-> "resolved", err |-> 0]

\* return promise: the call started operation() itself, so the promise it returned
\* settles as operation().finally(...) does, with the operation's own outcome.
ReturnedPromise(c, ok) ==
  [st |-> IF ok THEN "resolved" ELSE "rejected", err |-> IF ok THEN 0 ELSE c]

\* The operation of call c settles. Its finally callback runs, then the stored
\* promise settles and its reactions run: `await existing` continuations run in
\* their reaction job, race continuations one job later, each group in
\* registration order.
SettleOperation(s, c, ok) ==
  LET ws == s.re[c]
      direct == SelectSeq(ws, LAMBDA w : s.st[w] = "awaitExisting")
      raced == SelectSeq(ws, LAMBDA w : s.st[w] = "awaitRace")
      s1 == [s EXCEPT !.q = FinallyDelete(s.q, s.key[c], ok),
                      !.st[c] = ReturnedPromise(c, ok).st,
                      !.err[c] = ReturnedPromise(c, ok).err,
                      !.re[c] = <<>>]
  IN  Drain(s1, direct \o raced, ok, c)

SetQueue(s) ==
  /\ operationQueue' = s.q
  /\ callState' = s.st
  /\ callKey' = s.key
  /\ callErr' = s.err
  /\ reactions' = s.re

IdleCalls == {c \in Calls : callState[c] = "idle"}
NextCall == CHOOSE c \in IdleCalls : \A d \in IdleCalls : c <= d

(***************************************************************************)
(* Part 2: build() of core/builder.ts with its shutdown coordinator, and   *)
(* run() / spawnLongRunning() of utils/process.ts. One action per          *)
(* macrotask: a signal, a key press, a child's exit event, a timer, or the *)
(* settling of an awaited I/O promise; each runs the code up to the next   *)
(* point where the orchestrator waits for the outside world.               *)
(***************************************************************************)
OneShot == {"tsc1", "alias1"}        \* the children of run("tsc"), run("tsc-alias")
LongRunning == {"tsc", "alias"}      \* state.tsc, state.alias
Procs == OneShot \cup LongRunning
ExitCodes == {"0", "1", "2", "null"} \* exit event's code; "null": ended by a signal

OState ==
  [watch |-> watch, phase |-> phase, exitCode |-> exitCode, exitedVia |-> exitedVia,
   inProgress |-> inProgress, sd |-> sd, sdCode |-> sdCode, ui |-> ui,
   watcher |-> watcher, pipes |-> pipes, procOs |-> procOs, procKilled |-> procKilled,
   signals |-> signals, killWait |-> killWait, teardownRuns |-> teardownRuns,
   closeCalls |-> closeCalls, firstCode |-> firstCode, lateCodes |-> lateCodes,
   firstKind |-> firstKind, liveAtShutdown |-> liveAtShutdown, sdTrace |-> sdTrace,
   procCode |-> procCode, outDir |-> outDir, outAtStart |-> outAtStart,
   outAtSpawn |-> outAtSpawn,
   surfaced |-> surfaced, warned |-> warned, outputTo |-> outputTo]

SetOrch(o) ==
  \E x \in {o} :
    /\ watch' = x.watch
    /\ phase' = x.phase
    /\ exitCode' = x.exitCode
    /\ exitedVia' = x.exitedVia
    /\ inProgress' = x.inProgress
    /\ sd' = x.sd
    /\ sdCode' = x.sdCode
    /\ ui' = x.ui
    /\ watcher' = x.watcher
    /\ pipes' = x.pipes
    /\ procOs' = x.procOs
    /\ procKilled' = x.procKilled
    /\ signals' = x.signals
    /\ killWait' = x.killWait
    /\ teardownRuns' = x.teardownRuns
    /\ closeCalls' = x.closeCalls
    /\ firstCode' = x.firstCode
    /\ lateCodes' = x.lateCodes
    /\ firstKind' = x.firstKind
    /\ liveAtShutdown' = x.liveAtShutdown
    /\ sdTrace' = x.sdTrace
    /\ procCode' = x.procCode
    /\ outDir' = x.outDir
    /\ outAtStart' = x.outAtStart
    /\ outAtSpawn' = x.outAtSpawn
    /\ surfaced' = x.surfaced
    /\ warned' = x.warned
    /\ outputTo' = x.outputTo

\* One more step of shutdown() in its history.
Step(o, what, who) == [o EXCEPT !.sdTrace = Append(@, <<what, who>>)]

\* console.log / console.error: the real stream in one-shot mode; in watch mode
\* the override of lines 81-87, which writes to the display while state.ui is set
\* and nowhere once it is undefined.
Console(o) == IF ~o.watch THEN "stdout" ELSE IF o.ui = "up" THEN "display" ELSE "dropped"
Say(o) == Step(o, "out", Console(o))

\* process.exit(code)
ProcessExit(o, code, via) == [o EXCEPT !.exitCode = code, !.exitedVia = via]

\* ChildProcess.kill(sig): the signal is delivered when the child still exists,
\* and only then is `killed` set.
Kill(o, p, sig) ==
  IF o.procOs[p] = "alive"
    THEN [o EXCEPT !.signals[p] = @ \cup {sig}, !.procKilled[p] = TRUE]
    ELSE o

\* The timer callback's first statement: if (!p.killed) p.kill("SIGKILL")
Escalate(o, p) == IF ~o.procKilled[p] THEN Kill(o, p, "SIGKILL") ELSE o

\* killProcess(name, p): if (p && !p.killed) { p.kill(); timer; exit listener }
KillProcess(o, p) ==
  IF o.procOs[p] # "none" /\ ~o.procKilled[p]
    THEN [Kill(Step(Say(o), "kill", p), p, "SIGTERM") EXCEPT !.killWait[p] = "pending"]
    ELSE [o EXCEPT !.killWait[p] = "skipped"]

\* The promise killProcess returned for p resolves (exit listener or timer).
WaitResolved(o, p, how) == Step([o EXCEPT !.killWait[p] = how], "waitDone", p)

\* Faulty variant: the exit code is fixed instead of the argument of shutdown().
ShutdownExitsZero(o) == "0"

\* process.exit(code): code is the parameter of the running shutdown()
ShutdownExitCode(o) == o.sdCode

\* Faulty variant: the first wait to finish lets shutdown() go on (race for all).
AfterAnyKill(o) ==
  IF \E p \in LongRunning : o.killWait[p] # "pending"
    THEN ProcessExit(Step(Say([o EXCEPT !.sd = "done"]), "exit", "bldr"),
                     ShutdownExitCode(o), "shutdown")
    ELSE [o EXCEPT !.sd = "awaitKills"]

\* await Promise.all([...]); console.log; process.exit(code)
AfterKills(o) ==
  CHOOSE r \in
    {IF \A p \in LongRunning : x.killWait[p] # "pending"
       THEN ProcessExit(Step(Say([x EXCEPT !.sd = "done"]), "exit", "bldr"),
                        ShutdownExitCode(x), "shutdown")
       ELSE [x EXCEPT !.sd = "awaitKills"] : x \in {o}} : TRUE

\* From the end of the watcher's try/catch to the end of shutdown().
KillAll(o) ==
  AfterKills(CHOOSE o2 \in {KillProcess(o1, "alias") :
                               o1 \in {KillProcess(x, "tsc") : x \in {o}}} : TRUE)

\* Faulty variant: no re-entrancy guard.
NoShutdownGuard(o) == FALSE

\* if ((shutdown as any).inProgress) return;
ShutdownInProgress(o) == o.inProgress

\* shutdown(code), up to its first wait.
Shutdown(o, code) ==
  IF ShutdownInProgress(o)
    THEN [o EXCEPT !.lateCodes = @ \cup {code}]
    ELSE LET o1 == [o EXCEPT !.inProgress = TRUE,
                             !.sdCode = code,
                             !.teardownRuns = @ + 1,
                             !.liveAtShutdown = {p \in LongRunning : o.procOs[p] = "alive"}]
             o2 == IF o1.ui = "up"
                     THEN Step([o1 EXCEPT !.ui = "destroyed"], "destroyUi", "display")
                     ELSE o1
             o3 == Say(o2)
         IN  IF o3.watcher # "none"
               THEN Step([o3 EXCEPT !.watcher = "closing", !.sd = "closingWatcher",
                                    !.closeCalls = @ + 1], "closeWatcher", "watcher")
               ELSE KillAll(Say(o3))

\* A trigger calls shutdown(code); the first trigger and its code are remembered.
Trigger(o, code, kind) ==
  Shutdown([o EXCEPT !.firstCode = IF @ = "none" THEN code ELSE @,
                     !.firstKind = IF @ = "none" THEN kind ELSE @], code)

\* Lines 136-182: spawn both watch instances, attach the pipes, start the watcher.
WatchSetup(o) ==
  [o EXCEPT !.procOs = [p \in Procs |-> IF p \in LongRunning THEN "alive" ELSE @[p]],
            !.pipes = (o.ui = "up"),
            !.watcher = "open",
            !.phase = "WatchRunning"]

\* run(cmd): spawn the one-shot child.
RunOnce(o, p, ph) ==
  [o EXCEPT !.procOs[p] = "alive", !.phase = ph,
            !.outAtSpawn = IF p = "tsc1" THEN o.outDir ELSE @]

\* Faulty variant: the output directory is left as it is.
CleanSkipped(o) == o

\* rmIfExists(outDirAbs) when fs.rm succeeds
CleanOutput(o) == [o EXCEPT !.outDir = "empty"]

\* Faulty variant: run() resolves whatever the exit code.
RunResolvesAlways(code) == TRUE

\* run(): if (code === 0) resolve()
RunResolves(code) == code = "0"

\* Faulty variant: only exit code 1 counts as a failure.
FailingExitOnlyOne(code) == code = "1"

\* setupOutputPipe's exit listener: if (code !== 0 && code !== null) shutdown(code)
FailingExit(code) == code # "0" /\ code # "null"

\* The step of the initial build whose run() rejected.
FailedStep(o) == IF o.procCode["tsc1"] \notin {"none", "0"} THEN "tsc1" ELSE "alias1"

\* build() rejects with the error of `who`: main's catch prints it and exits 1.
Fatal(o, who) == ProcessExit([o EXCEPT !.surfaced = who], "1", "main")

\* What follows the initial build's try block when it did not throw.
BuildSucceeded(o) ==
  IF o.watch THEN WatchSetup(o) ELSE [o EXCEPT !.phase = "OneShotDone"]

\* Faulty variant: watch mode treats the failure as one-shot mode does.
BuildFailedFatal(o) == [o EXCEPT !.phase = "FailClean"]

\* The catch blocks: one-shot cleans the output and rethrows; watch writes the
\* failure to the compiler's box of the display and carries on.
BuildFailed(o) ==
  IF o.watch THEN WatchSetup([o EXCEPT !.warned = (o.ui = "up")])
             ELSE [o EXCEPT !.phase = "FailClean"]

\* Faulty variant: the box is written whether or not state.ui is still set.
HandleDataUnguarded(o) ==
  [o EXCEPT !.outputTo = IF o.ui = "up" THEN "display" ELSE "destroyed"]

\* setupOutputPipe's handleData and 'error' listener: if (... && state.ui) {
\* box.insertBottom(...); box.setScrollPerc(100); state.ui.screen.render() }
HandleData(o) ==
  [o EXCEPT !.outputTo = IF o.ui = "up" THEN "display" ELSE "dropped"]

Alive == exitCode = "none"

InitOrch ==
  /\ watch \in BOOLEAN
  /\ phase = "Idle"
  /\ exitCode = "none"
  /\ exitedVia = "none"
  /\ inProgress = FALSE
  /\ sd = "none"
  /\ sdCode = "none"
  /\ ui = "none"
  /\ watcher = "none"
  /\ pipes = FALSE
  /\ procOs = [p \in Procs |-> "none"]
  /\ procKilled = [p \in Procs |-> FALSE]
  /\ signals = [p \in Procs |-> {}]
  /\ killWait = [p \in LongRunning |-> "none"]
  /\ teardownRuns = 0
  /\ closeCalls = 0
  /\ firstCode = "none"
  /\ lateCodes = {}
  /\ firstKind = "none"
  /\ liveAtShutdown = {}
  /\ sdTrace = <<>>
  /\ procCode = [p \in Procs |-> "none"]
  /\ outDir \in {"stale", "empty"}
  /\ outAtStart = outDir
  /\ outAtSpawn = "none"
  /\ surfaced = "none"
  /\ warned = FALSE
  /\ outputTo = "none"

\* The state build() leaves behind in watch mode after a successful initial
\* build: both watch instances alive, the watcher open, no shutdown yet.
Watching ==
  /\ watch = TRUE
  /\ phase = "WatchRunning"
  /\ exitCode = "none"
  /\ exitedVia = "none"
  /\ inProgress = FALSE
  /\ sd = "none"
  /\ sdCode = "none"
  /\ ui = "up"
  /\ watcher = "open"
  /\ pipes = TRUE
  /\ procOs = [p \in Procs |-> IF p \in LongRunning THEN "alive" ELSE "exited"]
  /\ procKilled = [p \in Procs |-> FALSE]
  /\ signals = [p \in Procs |-> {}]
  /\ killWait = [p \in LongRunning |-> "none"]
  /\ teardownRuns = 0
  /\ closeCalls = 0
  /\ firstCode = "none"
  /\ lateCodes = {}
  /\ firstKind = "none"
  /\ liveAtShutdown = {}
  /\ sdTrace = <<>>
  /\ procCode = [p \in Procs |-> IF p \in LongRunning THEN "none" ELSE "0"]
  /\ outDir = "emitted"
  /\ outAtStart = "stale"
  /\ outAtSpawn = "empty"
  /\ surfaced = "none"
  /\ warned = FALSE
  /\ outputTo = "none"

\* build() up to `await rmIfExists(outDirAbs)`: the signal handlers are
\* registered, and in watch mode the display is created.
StartBuild ==
  /\ Alive /\ phase = "Idle"
  /\ SetOrch([OState EXCEPT !.ui = IF watch THEN "up" ELSE "none", !.phase = "Cleaning"])
  /\ UNCHANGED qvars

\* await rmIfExists(outDirAbs) settles: the output directory is gone and
\* run("tsc") spawns the compiler, or fs.rm failed and build() rejects.
CleanDone(ok) ==
  /\ Alive /\ phase = "Cleaning"
  /\ SetOrch(IF ok THEN RunOnce(CleanOutput(OState), "tsc1", "RunTsc")
                   ELSE Fatal(OState, "rm"))
  /\ UNCHANGED qvars

\* The exit event of a one-shot child: code 0 resolves run(), anything else
\* starts the 100 ms grace timer. A compiler that succeeded has emitted the
\* output; one that failed may have emitted some of it.
OneShotExit(p, code, wrote) ==
  /\ Alive /\ procOs[p] = "alive"
  /\ \/ p = "tsc1" /\ phase = "RunTsc" /\ (code = "0" => wrote)
     \/ p = "alias1" /\ phase = "RunAlias" /\ wrote
  /\ LET o1 == [OState EXCEPT !.procOs[p] = "exited", !.procCode[p] = code,
                              !.outDir = IF p = "alias1" \/ ~wrote THEN @
                                         ELSE IF code = "0" THEN "emitted" ELSE "partial"]
     IN  SetOrch(IF RunResolves(code)
                   THEN IF p = "tsc1" THEN RunOnce(o1, "alias1", "RunAlias")
                                      ELSE BuildSucceeded(o1)
                   ELSE [o1 EXCEPT !.phase = IF p = "tsc1" THEN "TscGrace" ELSE "AliasGrace"])
  /\ UNCHANGED qvars

\* The 'error' event of a one-shot child (it could not be started): run()
\* rejects at once and the catch block runs.
OneShotStartFailed(p) ==
  /\ Alive /\ procOs[p] = "alive"
  /\ \/ p = "tsc1" /\ phase = "RunTsc"
     \/ p = "alias1" /\ phase = "RunAlias"
  /\ SetOrch(BuildFailed([OState EXCEPT !.procOs[p] = "failed", !.procCode[p] = "error"]))
  /\ UNCHANGED qvars

\* The grace timer fires: run() rejects and the catch block runs.
GraceElapsed ==
  /\ Alive /\ phase \in {"TscGrace", "AliasGrace"}
  /\ SetOrch(BuildFailed(OState))
  /\ UNCHANGED qvars

\* One-shot failure: await rmIfExists(outDirAbs) settles. The output is gone and
\* the build error is rethrown, or fs.rm failed and its error is thrown instead;
\* main's catch prints what build() rejected with and calls process.exit(1).
FailCleanDone(ok) ==
  /\ Alive /\ phase = "FailClean"
  /\ SetOrch(IF ok THEN Fatal(CleanOutput(OState), FailedStep(OState))
                   ELSE Fatal(OState, "rm"))
  /\ UNCHANGED qvars

\* One-shot success: build() returned and nothing keeps the event loop alive.
OneShotFinished ==
  /\ Alive /\ phase = "OneShotDone"
  /\ SetOrch(ProcessExit(OState, "0", "natural"))
  /\ UNCHANGED qvars

\* process.on("SIGINT" | "SIGTERM", () => shutdown(0))
TerminationSignal ==
  /\ Alive /\ phase # "Idle"
  /\ SetOrch(Trigger(OState, "0", "signal"))
  /\ UNCHANGED qvars

\* screen.key(["escape", "q", "C-c"], () => onShutdown())
UiExitKey ==
  /\ Alive /\ ui = "up"
  /\ SetOrch(Trigger(OState, "0", "key"))
  /\ UNCHANGED qvars

\* The exit event of a watch instance. The listener of setupOutputPipe runs
\* first (a failing code triggers shutdown), then the one killProcess added.
\* A child that was sent SIGKILL can only have been ended by a signal.
LongRunningExit(p, code) ==
  /\ Alive /\ p \in LongRunning /\ procOs[p] = "alive"
  /\ "SIGKILL" \in signals[p] => code = "null"
  /\ LET o1 == [OState EXCEPT !.procOs[p] = "exited", !.procCode[p] = code]
         o2 == IF o1.pipes /\ FailingExit(code) THEN Trigger(o1, code, p) ELSE o1
     IN  SetOrch(IF o2.killWait[p] = "pending" /\ o2.sd = "awaitKills"
                   THEN AfterKills(WaitResolved(o2, p, "exitSeen"))
                   ELSE o2)
  /\ UNCHANGED qvars

\* A chunk on stdout or stderr of a watch instance: handleData trims it and
\* writes it to the instance's box. The streams may outlive the exit event.
LongRunningData(p, text) ==
  /\ Alive /\ pipes /\ procOs[p] \in {"alive", "exited"}
  /\ SetOrch(IF text # "" THEN HandleData(OState) ELSE OState)
  /\ UNCHANGED qvars

\* The 'error' event of a watch instance that could not be started: the
\* listener of setupOutputPipe writes the error to the box and nothing else;
\* no exit event follows.
LongRunningError(p) ==
  /\ Alive /\ pipes /\ procOs[p] = "alive" /\ signals[p] = {}
  /\ SetOrch(HandleData([OState EXCEPT !.procOs[p] = "failed", !.procCode[p] = "error"]))
  /\ UNCHANGED qvars

\* Faulty variant: the rejection of watcher.close() is not caught, and
\* shutdown() ends with it.
CloseErrorEscapes(o, ok) ==
  IF ok THEN KillAll(Say(o)) ELSE [o EXCEPT !.sd = "rejected"]

\* try { await state.watcher.close(); console.log(...) } catch (error) {
\* console.error(...) }: either way one line is written and shutdown() goes on
\* to the kills.
AfterClose(o, ok) == KillAll(Say(o))

\* await state.watcher.close() settles; a rejection is caught and logged.
WatcherClosed(ok) ==
  /\ Alive /\ sd = "closingWatcher"
  /\ SetOrch(AfterClose(Step([OState EXCEPT !.watcher = IF ok THEN "closed" ELSE "closeFailed"],
                              "watcherSettled", "watcher"), ok))
  /\ UNCHANGED qvars

\* The 2000 ms timer of killProcess fires: escalate, then resolve.
KillTimeout(p) ==
  /\ Alive /\ sd = "awaitKills" /\ killWait[p] = "pending"
  /\ SetOrch(AfterKills(WaitResolved(Escalate(OState, p), p, "timedOut")))
  /\ UNCHANGED qvars

Init ==
  /\ InitOrch
  /\ operationQueue = << >>
  /\ callState = << >>
  /\ callKey = << >>
  /\ callErr = << >>
  /\ reactions = << >>
  /\ opResult = << >>
  /\ outTree = {}
  /\ dirRemovals = {}
  /\ lastRemoval = NoRemoval
  /\ NoPathNoRun

Next ==
  \/ StartBuild
  \/ \E ok \in BOOLEAN : CleanDone(ok)
  \/ \E p \in OneShot, code \in ExitCodes, wrote \in BOOLEAN : OneShotExit(p, code, wrote)
  \/ \E p \in OneShot : OneShotStartFailed(p)
  \/ GraceElapsed
  \/ \E ok \in BOOLEAN : FailCleanDone(ok)
  \/ OneShotFinished
  \/ TerminationSignal
  \/ UiExitKey
  \/ \E p \in LongRunning, code \in ExitCodes : LongRunningExit(p, code)
  \/ \E p \in LongRunning, text \in {"", "e"} : LongRunningData(p, text)
  \/ \E p \in LongRunning : LongRunningError(p)
  \/ \E ok \in BOOLEAN : WatcherClosed(ok)
  \/ \E p \in LongRunning : KillTimeout(p)

Spec == Init /\ [][Next]_vars

\* Spec with what the event loop guarantees: the promise of watcher.close()
\* settles, and the 2000 ms timers of killProcess fire. Nothing is assumed of
\* the child processes, of signals or of the user.
SpecLive ==
  /\ Spec
  /\ WF_vars(\E ok \in BOOLEAN : WatcherClosed(ok))
  /\ \A p \in LongRunning : WF_vars(KillTimeout(p))

\* --------------------------------------------------------------- SpecQueue
QueueCalls == 1 .. MaxCalls
QueueKeys == 1 .. NumKeys

InitQueue ==
  /\ Watching
  /\ operationQueue = << >>
  /\ callState = [c \in QueueCalls |-> "idle"]
  /\ callKey = [c \in QueueCalls |-> 0]
  /\ callErr = [c \in QueueCalls |-> 0]
  /\ reactions = [c \in QueueCalls |-> <<>>]
  /\ opResult = [c \in QueueCalls |-> "none"]
  /\ outTree = {}
  /\ dirRemovals = {}
  /\ lastRemoval = NoRemoval
  /\ NoPathNoRun

\* srcWatcher.on("unlink"): one deletion event calls queuedOperation(absPath, ...)
UnlinkEvent(k) ==
  /\ IdleCalls # {}
  /\ SetQueue(CallQueuedOperation(QState, NextCall, k))
  /\ UNCHANGED <<opResult, svars, xvars, ovars>>

\* Faulty variant: the handler lets the error escape; the rejection of the
\* async listener is unhandled and ends the process with code 1.
RethrowDeletionError(o) == ProcessExit(o, "1", "unhandledRejection")

\* catch (error) { console.error(`Error handling file deletion ...`) }: the
\* listener logs and returns normally; nothing is rethrown and shutdown is not called.
LogDeletionError(o) == o

\* The calls whose promise rejected in the step from s0 to s1: for each of them
\* the `await queuedOperation(...)` of its listener throws into the catch block.
NewlyRejected(s0, s1) ==
  {c \in DOMAIN s1.st : s1.st[c] = "rejected" /\ s0.st[c] # "rejected"}

\* The operation of call c settles, with everything that follows in the
\* listeners that were awaiting it.
SettleCall(c, ok) ==
  /\ callState[c] = "running"
  /\ LET s1 == SettleOperation(QState, c, ok)
     IN  /\ SetQueue(s1)
         /\ SetOrch(IF NewlyRejected(QState, s1) # {} THEN LogDeletionError(OState)
                                                      ELSE OState)
  /\ opResult' = [opResult EXCEPT ![c] = IF ok THEN "ok" ELSE "failed"]

\* The removal started by call c finishes: it succeeds, or rm throws.
OperationSettles(c, ok) ==
  /\ SettleCall(c, ok)
  /\ UNCHANGED <<svars, xvars>>

NextQueue ==
  \/ \E k \in QueueKeys : UnlinkEvent(k)
  \/ \E c \in QueueCalls, ok \in BOOLEAN : OperationSettles(c, ok)

SpecQueue == InitQueue /\ [][NextQueue]_vars

\* ------------------------------------------------------------- SpecCeiling
\* More than MAX_CONCURRENT_OPERATIONS deletion events for distinct paths arrive
\* back to back (a directory's files removed together), before any removal has
\* finished; afterwards removals finish in any order, and the first path of the
\* burst may be re-created and deleted again.
BurstSize == MAX_CONCURRENT_OPERATIONS + Extra
CeilingCalls == 1 .. (BurstSize + LateCalls)

InitCeiling ==
  /\ Watching
  /\ operationQueue = << >>
  /\ callState = [c \in CeilingCalls |-> "idle"]
  /\ callKey = [c \in CeilingCalls |-> 0]
  /\ callErr = [c \in CeilingCalls |-> 0]
  /\ reactions = [c \in CeilingCalls |-> <<>>]
  /\ opResult = [c \in CeilingCalls |-> "none"]
  /\ outTree = {}
  /\ dirRemovals = {}
  /\ lastRemoval = NoRemoval
  /\ NoPathNoRun

RECURSIVE CallAll(_, _, _)
CallAll(s, c, last) ==
  IF c > last THEN s ELSE CallAll(CallQueuedOperation(s, c, c), c + 1, last)

UnlinkBurst ==
  /\ \A c \in Calls : callState[c] = "idle"
  /\ SetQueue(CallAll(QState, 1, BurstSize))
  /\ UNCHANGED <<opResult, svars, xvars, ovars>>

LateUnlinkEvent ==
  /\ callState[BurstSize] # "idle"
  /\ UnlinkEvent(callKey[1])

\* rm fails only for the paths it cannot remove.
CeilingOperationSettles(c, ok) ==
  /\ ok \/ callKey[c] <= FailKeys
  /\ OperationSettles(c, ok)

NextCeiling ==
  \/ UnlinkBurst
  \/ LateUnlinkEvent
  \/ \E c \in CeilingCalls, ok \in BOOLEAN : CeilingOperationSettles(c, ok)

SpecCeiling == InitCeiling /\ [][NextCeiling]_vars

\* -------------------------------------------------------------- SpecRepeat
\* queuedOperation near the ceiling with a repeated key: deletion events for
\* one path fewer than the ceiling arrive together, the first path is deleted
\* again and again while its removal is in flight, and events for paths not
\* seen before follow later.
Repeats == 2
FreshCalls == 1
NearCeiling == MAX_CONCURRENT_OPERATIONS - 1
RepeatCalls == 1 .. (NearCeiling + Repeats + FreshCalls)

InitRepeat ==
  /\ Watching
  /\ operationQueue = << >>
  /\ callState = [c \in RepeatCalls |-> "idle"]
  /\ callKey = [c \in RepeatCalls |-> 0]
  /\ callErr = [c \in RepeatCalls |-> 0]
  /\ reactions = [c \in RepeatCalls |-> <<>>]
  /\ opResult = [c \in RepeatCalls |-> "none"]
  /\ outTree = {}
  /\ dirRemovals = {}
  /\ lastRemoval = NoRemoval
  /\ NoPathNoRun

\* Calls c .. last are made one after the other, all for key k.
RECURSIVE CallAgain(_, _, _, _)
CallAgain(s, c, last, k) ==
  IF c > last THEN s ELSE CallAgain(CallQueuedOperation(s, c, k), c + 1, last, k)

RepeatBurst ==
  /\ \A c \in Calls : callState[c] = "idle"
  /\ SetQueue(CallAgain(CallAll(QState, 1, NearCeiling),
                        NearCeiling + 1, NearCeiling + Repeats, 1))
  /\ UNCHANGED <<opResult, svars, xvars, ovars>>

\* A deletion event for a path that has no call yet (the call's number is its key).
FreshUnlinkEvent ==
  /\ callState[1] # "idle" /\ IdleCalls # {}
  /\ UnlinkEvent(NextCall)

NextRepeat ==
  \/ RepeatBurst
  \/ FreshUnlinkEvent
  \/ \E c \in RepeatCalls, ok \in BOOLEAN : CeilingOperationSettles(c, ok)

SpecRepeat == InitRepeat /\ [][NextRepeat]_vars

(***************************************************************************)
(* Part 3: the deletion mirroring of utils/fs.ts (makeDistCleaner,         *)
(* rmIfExists) and the unlink / unlinkDir listeners of core/builder.ts.    *)
(* A path is a sequence of segments, and a segment is the sequence of the  *)
(* parts its name has between dots: "b.d.ts" is <<"b", "d", "ts">>, the    *)
(* hidden file ".ts" is <<"", "ts">> and ".." is <<"", "", "">>.           *)
(***************************************************************************)
DotDot == <<"", "", "">>
Last(q) == q[Len(q)]
Front(q) == SubSeq(q, 1, Len(q) - 1)
IsPrefix(a, b) == Len(a) <= Len(b) /\ SubSeq(b, 1, Len(a)) = a

\* The i flag of the two regular expressions, on the extensions that occur.
Lower(x) ==
  CASE x = "TS" -> "ts" [] x = "TSX" -> "tsx" [] x = "MTS" -> "mts" [] x = "CTS" -> "cts"
    [] OTHER -> x

TsExts == {"ts", "tsx", "mts", "cts"}

\* isTsLike: /\.(ts|tsx|mts|cts)$/i.test(filePath)
isTsLike(p) == p # <<>> /\ Len(Last(p)) >= 2 /\ Lower(Last(Last(p))) \in TsExts

\* Faulty variant: the extension stays.
keepTsExt(p) == p

\* stripTsExt: p.replace(/\.(ts|tsx|mts|cts)$/i, "")
stripTsExt(p) == IF isTsLike(p) THEN Front(p) \o <<Front(Last(p))>> ELSE p

RECURSIVE CommonLen(_, _)
CommonLen(a, b) ==
  IF a # <<>> /\ b # <<>> /\ Head(a) = Head(b)
    THEN 1 + CommonLen(Tail(a), Tail(b)) ELSE 0

\* path.relative(from, to) on absolute paths
Relative(from, to) ==
  LET n == CommonLen(from, to)
  IN  [i \in 1 .. (Len(from) - n) |-> DotDot] \o SubSeq(to, n + 1, Len(to))

RECURSIVE Normalize(_, _)
Normalize(acc, rest) ==
  IF rest = <<>> THEN acc
  ELSE IF Head(rest) = DotDot
         THEN Normalize(IF acc = <<>> THEN acc ELSE Front(acc), Tail(rest))
         ELSE Normalize(Append(acc, Head(rest)), Tail(rest))

\* path.join(base, r)
Join(base, r) == Normalize(<<>>, base \o r)

rootDirAbs == << <<"proj">>, <<"src">> >>
outDirAbs == << <<"proj">>, <<"dist">> >>

\* Faulty variant: the file lands in the output directory itself.
toOutPathFlat(srcPathAbs) == Join(outDirAbs, <<Last(srcPathAbs)>>)

\* toOutPath: path.join(outDirAbs, path.relative(rootDirAbs, srcPathAbs))
toOutPath(srcPathAbs) == Join(outDirAbs, Relative(rootDirAbs, srcPathAbs))

EMITTED_SUFFIXES ==
  << <<"js">>, <<"js", "map">>, <<"d", "ts">>, <<"d", "ts", "map">>,
     <<"mjs">>, <<"mjs", "map">>, <<"cjs">>, <<"cjs", "map">> >>

\* base + s: string concatenation of a path and a suffix that begins with a dot
Concat(base, suffix) == Front(base) \o <<Last(base) \o suffix>>

\* The paths removeEmittedForSource passes to rmIfExists.
EmittedPaths(srcFileAbs) ==
  {Concat(stripTsExt(toOutPath(srcFileAbs)), EMITTED_SUFFIXES[i]) : i \in DOMAIN EMITTED_SUFFIXES}

\* The file system under the output directory: t is the set of its files.
Exists(t, q) == \E f \in t : IsPrefix(q, f)
Rm(t, q) == {f \in t : ~IsPrefix(q, f)}

\* Faulty variant: rm without force and without the catch; an absent path is an error.
rmStrict(t, q, fault) ==
  [tree |-> IF fault \/ ~Exists(t, q) THEN t ELSE Rm(t, q), err |-> fault \/ ~Exists(t, q)]

\* rmIfExists: fs.promises.rm(p, { force: true, recursive: true }); ENOENT is
\* swallowed, any other error (fault) is rethrown.
rmIfExists(t, q, fault) == [tree |-> IF fault THEN t ELSE Rm(t, q), err |-> fault]

RECURSIVE RmSuffixes(_, _, _, _)
RmSuffixes(r, base, i, faulty) ==
  IF i > Len(EMITTED_SUFFIXES) THEN r
  ELSE LET q == Concat(base, EMITTED_SUFFIXES[i])
           one == rmIfExists(r.tree, q, q \in faulty)
       IN  RmSuffixes([tree |-> one.tree, err |-> r.err \/ one.err], base, i + 1, faulty)

\* removeEmittedForSource: Promise.all(EMITTED_SUFFIXES.map((s) => rmIfExists(base + s)))
removeEmittedForSource(t, srcFileAbs, faulty) ==
  RmSuffixes([tree |-> t, err |-> FALSE], stripTsExt(toOutPath(srcFileAbs)), 1, faulty)

\* removeOutDirForSourceDir: rmIfExists(toOutPath(srcDirAbs))
removeOutDirForSourceDir(t, srcDirAbs, faulty) ==
  rmIfExists(t, toOutPath(srcDirAbs), toOutPath(srcDirAbs) \in faulty)

\* Faulty variant: an asset's removal takes the directory that holds it.
RemoveAssetDir(t, absPath, faulty) ==
  rmIfExists(t, Front(toOutPath(absPath)), Front(toOutPath(absPath)) \in faulty)

\* The else branch of the unlink listener's operation.
RemoveAsset(t, absPath, faulty) ==
  LET outPath == Join(outDirAbs, Relative(rootDirAbs, absPath))
  IN  rmIfExists(t, outPath, outPath \in faulty)

\* The operation the unlink listener passes to queuedOperation.
UnlinkOperation(t, absPath, faulty) ==
  IF isTsLike(absPath) THEN removeEmittedForSource(t, absPath, faulty)
                       ELSE RemoveAsset(t, absPath, faulty)

\* ---------------------------------------------------------------- SpecSync
\* Watch mode after a build: files and directories of the source tree are
\* deleted, the listeners mirror the deletions into the output tree; a path may
\* be re-created and deleted again. rm fails on the paths of `faulty`.
MaxSyncCalls == 2
SyncCalls == 1 .. MaxSyncCalls

SrcA == rootDirAbs \o << <<"a">> >>
SrcAssets == rootDirAbs \o << <<"assets">> >>
OutA == outDirAbs \o << <<"a">> >>
SrcFiles ==
  { SrcA \o << <<"b", "ts">> >>, SrcA \o << <<"c", "TSX">> >>,
    SrcAssets \o << <<"logo", "png">> >> }
SrcDirs == {SrcA, SrcAssets}

\* What a build of the source tree left in the output directory; x.ts and
\* assets/banner.png are sources that stay.
OutBuilt ==
  { OutA \o << <<"b", "js">> >>, OutA \o << <<"b", "js", "map">> >>,
    OutA \o << <<"b", "d", "ts">> >>, OutA \o << <<"c", "js">> >>,
    OutA \o << <<"x", "js">> >>,
    outDirAbs \o << <<"assets">>, <<"logo", "png">> >>,
    outDirAbs \o << <<"assets">>, <<"banner", "png">> >> }

FaultSets == { {}, {OutA \o << <<"b", "js">> >>}, {outDirAbs \o << <<"assets">> >>} }

InitSync ==
  /\ Watching
  /\ operationQueue = << >>
  /\ callState = [c \in SyncCalls |-> "idle"]
  /\ callKey = [c \in SyncCalls |-> <<>>]
  /\ callErr = [c \in SyncCalls |-> 0]
  /\ reactions = [c \in SyncCalls |-> <<>>]
  /\ opResult = [c \in SyncCalls |-> "none"]
  /\ outTree \in {OutBuilt, {}}
  /\ dirRemovals = {}
  /\ lastRemoval = NoRemoval
  /\ NoPathNoRun

\* srcWatcher.on("unlink"): the deletion of source file absPath
FileDeleted(absPath) == UnlinkEvent(absPath)

\* The operation of call c finishes: its rm calls have taken effect, or one of
\* them threw.
RemovalSettles(c, faulty) ==
  /\ callState[c] = "running"
  /\ LET r == UnlinkOperation(outTree, callKey[c], faulty)
     IN  /\ SettleCall(c, ~r.err)
         /\ outTree' = r.tree
         /\ lastRemoval' = [kind |-> "file", path |-> callKey[c], faulty |-> faulty,
                            err |-> r.err, gone |-> outTree \ r.tree]
  /\ UNCHANGED <<dirRemovals, xvars>>

\* Faulty variant: the directory's removal is passed to queuedOperation.
RemoveDirQueued(s, absDir) == CallQueuedOperation(s, NextCall, absDir)

\* The unlinkDir listener calls cleaner.removeOutDirForSourceDir directly: the
\* operation queue is neither read nor written.
RemoveDirDirect(s, absDir) == s

\* srcWatcher.on("unlinkDir"): the removal of the mirrored directory is started.
DirDeleted(absDir) ==
  /\ absDir \notin dirRemovals
  /\ dirRemovals' = dirRemovals \cup {absDir}
  /\ SetQueue(RemoveDirDirect(QState, absDir))
  /\ UNCHANGED <<opResult, outTree, lastRemoval, xvars, ovars>>

\* await cleaner.removeOutDirForSourceDir(absDir) settles; an error is logged
\* by the listener's catch block.
DirRemovalSettles(absDir, faulty) ==
  /\ absDir \in dirRemovals
  /\ LET r == removeOutDirForSourceDir(outTree, absDir, faulty)
     IN  /\ outTree' = r.tree
         /\ lastRemoval' = [kind |-> "dir", path |-> absDir, faulty |-> faulty,
                            err |-> r.err, gone |-> outTree \ r.tree]
         /\ SetOrch(IF r.err THEN LogDeletionError(OState) ELSE OState)
  /\ dirRemovals' = dirRemovals \ {absDir}
  /\ UNCHANGED <<operationQueue, callState, callKey, callErr, reactions, opResult, xvars>>

NextSync ==
  \/ \E absPath \in SrcFiles : FileDeleted(absPath)
  \/ \E c \in SyncCalls, faulty \in FaultSets : RemovalSettles(c, faulty)
  \/ \E absDir \in SrcDirs : DirDeleted(absDir)
  \/ \E absDir \in SrcDirs, faulty \in FaultSets : DirRemovalSettles(absDir, faulty)

SpecSync == InitSync /\ [][NextSync]_vars

\* --------------------------------------------------------------- SpecPaths
\* removeEmittedForSource applied to source files at any depth under the source
\* directory, with directory names that look like source files, names with
\* several dots or none before the extension, and extensions in either case.
MaxDepth == 2
DirNames == {<<"a">>, <<"lib", "ts">>}
Stems == {<<"b">>, <<"b", "d">>, <<"b", "test">>, <<"">>}
Extensions == {"ts", "tsx", "mts", "cts", "TS", "TSX", "MTS", "CTS"}
RelDirs == UNION {[1 .. n -> DirNames] : n \in 0 .. MaxDepth}
PathInputs ==
  {rootDirAbs \o d \o <<Append(st, e)>> : d \in RelDirs, st \in Stems, e \in Extensions}

InitPaths ==
  /\ Watching
  /\ operationQueue = << >>
  /\ callState = << >>
  /\ callKey = << >>
  /\ callErr = << >>
  /\ reactions = << >>
  /\ opResult = << >>
  /\ outTree = {}
  /\ dirRemovals = {}
  /\ lastRemoval = NoRemoval
  /\ NoConfigNoArgs
  /\ pathIn \in PathInputs /\ pathOut = {}
  /\ runCmd = "none" /\ runState = "none" /\ runOutput = <<>>
  /\ runCode = "none" /\ runError = NoError

\* cleaner.removeEmittedForSource(pathIn) makes its rmIfExists calls.
RemoveEmitted ==
  /\ pathOut = {}
  /\ pathOut' = EmittedPaths(pathIn)
  /\ UNCHANGED <<operationQueue, callState, callKey, callErr, reactions, opResult, svars,
                 pathIn, runCmd, runState, runOutput, runCode, runError, cvars, ovars>>

NextPaths == RemoveEmitted

SpecPaths == InitPaths /\ [][NextPaths]_vars

\* ----------------------------------------------------------------- SpecRun
\* run(cmd, args, cwd) of utils/process.ts: the child writes to stdout and
\* stderr, exits, and output may still arrive during the 100 ms before run()
\* rejects. The captured output is a sequence of characters, " " being white space.
MaxOutput == 3
Chars == {" ", "e"}
Commands == {"tsc", "tsc-alias"}

RECURSIVE TrimStart(_)
TrimStart(out) == IF out # <<>> /\ Head(out) = " " THEN TrimStart(Tail(out)) ELSE out
RECURSIVE TrimEnd(_)
TrimEnd(out) == IF out # <<>> /\ Last(out) = " " THEN TrimEnd(Front(out)) ELSE out

\* output.trim()
Trim(out) == TrimEnd(TrimStart(out))

\* Faulty variant: the captured output is the message as it is.
ErrorMessageRaw(cmd, out, code) == [kind |-> "captured", text |-> out]

\* cleanOutput || `${cmd} ${args.join(" ")} failed with exit code ${code}`
ErrorMessage(cmd, out, code) ==
  IF Trim(out) # <<>> THEN [kind |-> "captured", text |-> Trim(out)]
                      ELSE [kind |-> "failedWithExitCode", cmd |-> cmd, code |-> code]

InitRun ==
  /\ Watching
  /\ operationQueue = << >>
  /\ callState = << >>
  /\ callKey = << >>
  /\ callErr = << >>
  /\ reactions = << >>
  /\ opResult = << >>
  /\ outTree = {}
  /\ dirRemovals = {}
  /\ lastRemoval = NoRemoval
  /\ pathIn = <<>> /\ pathOut = {}
  /\ NoConfigNoArgs
  /\ runCmd \in Commands /\ runState = "running" /\ runOutput = <<>>
  /\ runCode = "none" /\ runError = NoError

RunUnchanged ==
  UNCHANGED <<operationQueue, callState, callKey, callErr, reactions, opResult, svars,
              pathIn, pathOut, runCmd, cvars, ovars>>

\* p.stdout.on("data") / p.stderr.on("data"): output += data.toString()
RunData(ch) ==
  /\ runState \in {"running", "grace"}
  /\ Len(runOutput) < MaxOutput
  /\ runOutput' = Append(runOutput, ch)
  /\ UNCHANGED <<runState, runCode, runError>>
  /\ RunUnchanged

\* p.on("exit"): code 0 resolves, any other code starts the 100 ms timer
RunExit(code) ==
  /\ runState = "running"
  /\ runCode' = code
  /\ runState' = IF RunResolves(code) THEN "resolved" ELSE "grace"
  /\ UNCHANGED <<runOutput, runError>>
  /\ RunUnchanged

\* The timer fires: reject(new Error(errorMsg))
RunGraceElapsed ==
  /\ runState = "grace"
  /\ runState' = "rejected"
  /\ runError' = ErrorMessage(runCmd, runOutput, runCode)
  /\ UNCHANGED <<runOutput, runCode>>
  /\ RunUnchanged

\* p.on("error"): reject(new Error(`Failed to start ${cmd}: ...`))
RunSpawnError ==
  /\ runState = "running"
  /\ runState' = "rejected"
  /\ runError' = [kind |-> "failedToStart", cmd |-> runCmd]
  /\ UNCHANGED <<runOutput, runCode>>
  /\ RunUnchanged

NextRun ==
  \/ \E ch \in Chars : RunData(ch)
  \/ \E code \in ExitCodes : RunExit(code)
  \/ RunGraceElapsed
  \/ RunSpawnError

SpecRun == InitRun /\ [][NextRun]_vars

\* -------------------------------------------------------------- SpecConfig
\* readTsConfig of utils/fs.ts and build() of core/builder.ts up to the first
\* rmIfExists(outDirAbs). An option of the tsconfig is undefined or a string;
\* a string is a path, relative or absolute.
Undefined == [kind |-> "undefined"]
Str(abs, segs) == [kind |-> "string", abs |-> abs, segs |-> segs]
configDir == << <<"proj">> >>
OptionValues ==
  {Undefined,
   Str(FALSE, <<>>),
   Str(FALSE, << <<"dist">> >>),
   Str(FALSE, << <<"src">> >>),
   Str(FALSE, << <<"lib">>, DotDot, <<"src">> >>),
   Str(TRUE, << <<"proj">>, <<"src">> >>),
   Str(TRUE, << <<"proj">>, <<"dist">> >>)}

\* !x for x undefined or a string: undefined and "" are falsy
Falsy(x) == x.kind = "undefined" \/ (~x.abs /\ x.segs = <<>>)

\* !outDir || !rootDir
MissingDir(out, root) == Falsy(out) \/ Falsy(root)

\* path.isAbsolute(x) ? x : path.resolve(base, x)
Absolute(base, x) == IF x.abs THEN x ELSE Str(TRUE, Normalize(<<>>, base \o x.segs))

\* readTsConfig(tsconfigPath), from parsed.options on
readTsConfig(o) ==
  IF MissingDir(o.outDir, o.rootDir)
    THEN [kind |-> "error"]
    ELSE [kind |-> "config", configDir |-> configDir,
          outDir |-> Absolute(configDir, o.outDir),
          rootDir |-> Absolute(configDir, o.rootDir)]

InitConfig ==
  /\ InitOrch
  /\ operationQueue = << >>
  /\ callState = << >>
  /\ callKey = << >>
  /\ callErr = << >>
  /\ reactions = << >>
  /\ opResult = << >>
  /\ outTree = {}
  /\ dirRemovals = {}
  /\ lastRemoval = NoRemoval
  /\ pathIn = <<>> /\ pathOut = {}
  /\ runCmd = "none" /\ runState = "none" /\ runOutput = <<>>
  /\ runCode = "none" /\ runError = NoError
  /\ options \in [kind : {"options"}, outDir : OptionValues, rootDir : OptionValues]
  /\ cfg = Nothing /\ dirs = Nothing /\ rmTarget = Nothing
  /\ argv = <<>> /\ args = Nothing /\ mainPc = "none"

ConfigUnchanged ==
  UNCHANGED <<operationQueue, callState, callKey, callErr, reactions, opResult, svars,
              pathIn, pathOut, runCmd, runState, runOutput, runCode, runError,
              options, argv, args, mainPc, ovars>>

\* const cfg = readTsConfig(tsconfigPath)
ReadTsConfig ==
  /\ cfg = Nothing
  /\ cfg' = readTsConfig(options)
  /\ UNCHANGED <<dirs, rmTarget>>
  /\ ConfigUnchanged

\* build(), lines 14-25: the second check, then rootDirAbs and outDirAbs
ResolveDirs ==
  /\ cfg.kind = "config" /\ dirs = Nothing
  /\ dirs' = IF MissingDir(cfg.outDir, cfg.rootDir)
               THEN [kind |-> "error"]
               ELSE [kind |-> "dirs",
                     rootDirAbs |-> Absolute(cfg.configDir, cfg.rootDir),
                     outDirAbs |-> Absolute(cfg.configDir, cfg.outDir)]
  /\ UNCHANGED <<cfg, rmTarget>>
  /\ ConfigUnchanged

\* build(), line 100: await rmIfExists(outDirAbs)
CleanCalled ==
  /\ dirs.kind = "dirs" /\ rmTarget = Nothing
  /\ rmTarget' = dirs.outDirAbs
  /\ UNCHANGED <<cfg, dirs>>
  /\ ConfigUnchanged

NextConfig ==
  \/ ReadTsConfig
  \/ ResolveDirs
  \/ CleanCalled

SpecConfig == InitConfig /\ [][NextConfig]_vars

\* ---------------------------------------------------------------- SpecArgs
\* main() of index.ts with parseArgs of utils/args.ts. A token is the
\* sequence of its characters; the name of a long flag counts as one.
MaxArgs == 3
Tokens ==
  {<<"-", "w">>, <<"-", "-", "watch">>,
   <<"-", "p">>, <<"-", "-", "project">>,
   <<"-", "h">>, <<"-", "-", "help">>,
   <<>>, <<"t">>, <<"-", "x">>}
ArgvInputs == UNION {[1 .. n -> Tokens] : n \in 0 .. MaxArgs}

\* t.startsWith(c)
StartsWith(t, c) == t # <<>> /\ Head(t) = c

\* argv[i], undefined past the end
TokenAt(av, i) == IF i \in 1 .. Len(av) THEN [kind |-> "string", text |-> av[i]] ELSE Undefined

\* Faulty variant: whatever follows -p is taken as the path.
TakesAnyNext(next) == next.kind = "string"

\* next && !next.startsWith("-")
TakesNext(next) ==
  next.kind = "string" /\ next.text # <<>> /\ ~StartsWith(next.text, "-")

\* The for loop of parseArgs from index i on, with the args built so far.
RECURSIVE parseArgsFrom(_, _, _)
parseArgsFrom(av, i, a) ==
  IF i > Len(av) THEN a
  ELSE IF av[i] \in {<<"-", "w">>, <<"-", "-", "watch">>}
    THEN parseArgsFrom(av, i + 1, [a EXCEPT !.watch = TRUE])
  ELSE IF av[i] \in {<<"-", "p">>, <<"-", "-", "project">>}
    THEN IF TakesNext(TokenAt(av, i + 1))
           THEN parseArgsFrom(av, i + 2, [a EXCEPT !.project = TokenAt(av, i + 1)])
           ELSE [kind |-> "usageError"]
  ELSE IF av[i] \in {<<"-", "h">>, <<"-", "-", "help">>}
    THEN [kind |-> "help"]
  ELSE parseArgsFrom(av, i + 1, a)

\* parseArgs(argv): the Args, or the error thrown, or the exit after the help
parseArgs(av) == parseArgsFrom(av, 1, [kind |-> "args", watch |-> FALSE, project |-> Undefined])

InitArgs ==
  /\ InitOrch /\ ~watch /\ outDir = "stale"
  /\ operationQueue = << >>
  /\ callState = << >>
  /\ callKey = << >>
  /\ callErr = << >>
  /\ reactions = << >>
  /\ opResult = << >>
  /\ outTree = {}
  /\ dirRemovals = {}
  /\ lastRemoval = NoRemoval
  /\ pathIn = <<>> /\ pathOut = {}
  /\ runCmd = "none" /\ runState = "none" /\ runOutput = <<>>
  /\ runCode = "none" /\ runError = NoError
  /\ options = Nothing /\ cfg = Nothing /\ dirs = Nothing /\ rmTarget = Nothing
  /\ argv \in ArgvInputs /\ args = Nothing /\ mainPc = "checkDependencies"

ArgsUnchanged ==
  UNCHANGED <<operationQueue, callState, callKey, callErr, reactions, opResult, svars,
              pathIn, pathOut, runCmd, runState, runOutput, runCode, runError,
              options, cfg, dirs, rmTarget, argv>>

\* await checkDependencies(): it returns true, or installDeps rejected and
\* main's catch prints the error and calls process.exit(1).
DependenciesChecked(ok) ==
  /\ Alive /\ mainPc = "checkDependencies"
  /\ mainPc' = IF ok THEN "parseArgs" ELSE "done"
  /\ SetOrch(IF ok THEN OState ELSE Fatal(OState, "dependencies"))
  /\ UNCHANGED args
  /\ ArgsUnchanged

\* const args = parseArgs(process.argv.slice(2)): the help is printed and
\* process.exit(0) is called, or the usage error reaches main's catch, or
\* parseArgs returns.
ParseArgs ==
  /\ Alive /\ mainPc = "parseArgs"
  /\ args' = parseArgs(argv)
  /\ mainPc' = IF args'.kind = "args" THEN "build" ELSE "done"
  /\ SetOrch(CASE args'.kind = "help" -> ProcessExit(OState, "0", "help")
               [] args'.kind = "usageError" -> Fatal(OState, "usage")
               [] OTHER -> OState)
  /\ ArgsUnchanged

\* await build(args)
BuildCalled ==
  /\ Alive /\ mainPc = "build"
  /\ mainPc' = "building"
  /\ SetOrch([OState EXCEPT !.watch = args.watch])
  /\ UNCHANGED args
  /\ ArgsUnchanged

NextArgs ==
  \/ \E ok \in BOOLEAN : DependenciesChecked(ok)
  \/ ParseArgs
  \/ BuildCalled

SpecArgs == InitArgs /\ [][NextArgs]_vars

\* ------------------------------------------------------- queue: vocabulary
Enqueued(c) == callState[c] # "idle"
Running(c) == callState[c] = "running"
Settled(c) == callState[c] \in {"resolved", "rejected"}
\* operation() was called for c: it is executing, or c settled with its own outcome
Started(c) ==
  \/ callState[c] \in {"running", "resolved"}
  \/ callState[c] = "rejected" /\ callErr[c] = c
RunningCount == Cardinality({c \in Calls : Running(c)})
DistinctKeys ==
  \A c, d \in Calls : (Enqueued(c) /\ Enqueued(d) /\ c # d) => callKey[c] # callKey[d]

\* C1: at most one operation per key is executing at any time.
C1_OneOperationPerKey ==
  \A c, d \in Calls : (Running(c) /\ Running(d) /\ callKey[c] = callKey[d]) => c = d

\* C2: the body of shutdown() runs at most once per process, so does each of
\* its steps, and a trigger arriving during a shutdown leaves the outcome as the
\* first trigger set it.
C2_TeardownRunsAtMostOnce ==
  /\ teardownRuns <= 1
  /\ closeCalls <= 1
  /\ inProgress => sdCode = firstCode
  /\ exitedVia = "shutdown" => exitCode = firstCode

\* C2 witness: a signal started the shutdown, a watch instance then exited with
\* code 1 while it was in progress, and the process exited with code 0.
C2_Witness ==
  /\ exitedVia = "shutdown"
  /\ firstCode = "0"
  /\ "1" \in lateCodes
  /\ teardownRuns = 1

\* C3: a watch instance that was sent the termination request and has not
\* exited when the kill timeout elapses has been sent SIGKILL.
C3_TimeoutEscalatesToSigkill ==
  \A p \in LongRunning :
    (killWait[p] = "timedOut" /\ "SIGTERM" \in signals[p]) => "SIGKILL" \in signals[p]

\* C4: when the orchestrator has exited through the shutdown sequence, no
\* process it spawned is still alive.
C4_NoChildOutlivesShutdown ==
  exitedVia = "shutdown" => \A p \in Procs : procOs[p] # "alive"

\* C5: of two operations enqueued for the same key one after the other, the
\* second has not begun unless the first has settled.
C5_SecondBeginsAfterFirstSettled ==
  \A c, d \in Calls :
    (c < d /\ Enqueued(c) /\ callKey[c] = callKey[d] /\ Started(d)) => Settled(c)

\* C6: when more than MAX_CONCURRENT_OPERATIONS distinct keys are enqueued at
\* once, no more than MAX_CONCURRENT_OPERATIONS operations execute at a time.
C6_CeilingForDistinctKeys ==
  DistinctKeys => RunningCount <= MAX_CONCURRENT_OPERATIONS

\* C6 witness: all keys distinct, one call that waited at the ceiling now runs
\* among MAX_CONCURRENT_OPERATIONS operations while another still waits.
C6_Witness ==
  /\ DistinctKeys
  /\ Running(MAX_CONCURRENT_OPERATIONS + 1)
  /\ RunningCount = MAX_CONCURRENT_OPERATIONS
  /\ callState[MAX_CONCURRENT_OPERATIONS + 2] = "awaitRace"

\* C7: the pending map never holds more than MAX_CONCURRENT_OPERATIONS keys; a
\* call made while the map is at the ceiling does not start its operation in
\* that step, and a call waiting at the ceiling starts only in a step in which
\* an executing operation settles.
C7_MapBoundedAndCeilingBlocks ==
  /\ [](MapSize(operationQueue) <= MAX_CONCURRENT_OPERATIONS)
  /\ [][\A c \in Calls :
          /\ (callState[c] = "idle" /\ MapSize(operationQueue) >= MAX_CONCURRENT_OPERATIONS)
                => callState'[c] # "running"
          /\ (callState[c] = "awaitRace" /\ callState'[c] = "running")
                => \E d \in Calls : Running(d) /\ callState'[d] \in {"resolved", "rejected"}
       ]_vars

\* C7 witness: the map is full and a call waits at the ceiling after an
\* earlier waiter has taken a freed slot.
C7_Witness ==
  /\ MapSize(operationQueue) = MAX_CONCURRENT_OPERATIONS
  /\ \E c \in Calls : Settled(c)
  /\ \E c \in Calls : callState[c] = "awaitRace"

\* C8: every enqueued operation is eventually started; since a settled call
\* starts nothing any more, every call that has settled has started its operation.
C8_EverySettledCallStarted ==
  \A c \in Calls : Settled(c) => Started(c)

\* C9: a key is in the pending map exactly while an operation for it is in flight.
C9_PendingExactlyWhileInFlight ==
  \A c \in Calls : Enqueued(c) =>
    (MapHas(operationQueue, callKey[c]) <=>
       \E d \in Calls : Running(d) /\ callKey[d] = callKey[c])

\* C10: once every operation enqueued for a key has settled, resolved or
\* rejected, the pending map does not contain the key.
C10_NoLeakedPendingEntry ==
  \A k \in DOMAIN operationQueue :
    \E c \in Calls : Enqueued(c) /\ callKey[c] = k /\ ~Settled(c)

\* C10 witness: two calls on one key have both settled, one of them by its own
\* operation failing, and the key is gone from the map.
C10_Witness ==
  \E c, d \in Calls :
    /\ c # d /\ callKey[c] = callKey[d]
    /\ callState[c] = "rejected" /\ callErr[c] = c
    /\ Settled(d) /\ Started(d)
    /\ \A e \in Calls : (Enqueued(e) /\ callKey[e] = callKey[c]) => Settled(e)
    /\ ~MapHas(operationQueue, callKey[c])

\* C11: when the operation a call started fails, the promise that call returned
\* is rejected, and with that operation's error.
C11_OwnFailureRejectsCaller ==
  \A c \in Calls :
    opResult[c] = "failed" => (callState[c] = "rejected" /\ callErr[c] = c)

\* C11 witness: an operation failed while a second call waited on its key; the
\* caller of the failed operation holds a rejected promise.
C11_Witness ==
  \E c, d \in Calls :
    /\ c # d /\ callKey[c] = callKey[d]
    /\ opResult[c] = "failed" /\ callState[c] = "rejected"
    /\ callState[d] = "rejected" /\ callErr[d] = c

\* -------------------------------------------------- shutdown: vocabulary
At(what) == {i \in DOMAIN sdTrace : sdTrace[i][1] = what}
Before(first, then) == \A i \in At(first), j \in At(then) : i < j

\* C12: shutdown() proceeds in order. The display, when there is one, is
\* destroyed before anything is written to the console; the watcher is closed
\* after that and has settled before a termination request is sent; both
\* requests are out before either wait finishes; the process exits only when no
\* wait is pending.
C12_ShutdownStrictlyOrdered ==
  /\ (inProgress /\ watch) => (ui = "destroyed" /\ At("destroyUi") # {})
  /\ Before("destroyUi", "out") /\ Before("destroyUi", "closeWatcher")
  /\ Before("closeWatcher", "watcherSettled") /\ Before("watcherSettled", "kill")
  /\ (At("kill") # {} /\ watcher # "none") => At("watcherSettled") # {}
  /\ Before("kill", "waitDone")
  /\ Before("kill", "exit") /\ Before("waitDone", "exit")
  /\ exitedVia = "shutdown" =>
        /\ At("exit") # {}
        /\ \A p \in LongRunning : killWait[p] \in {"skipped", "exitSeen", "timedOut"}
        /\ \A i \in At("kill") : \E j \in At("waitDone") : sdTrace[j][2] = sdTrace[i][2]

\* C12 witness: the process exited through a shutdown that destroyed the
\* display, closed the watcher and waited for both watch instances, one wait ended
\* by the exit event and the other by the timer.
C12_Witness ==
  /\ exitedVia = "shutdown"
  /\ At("destroyUi") # {} /\ At("watcherSettled") # {}
  /\ killWait["tsc"] = "exitSeen" /\ killWait["alias"] = "timedOut"

\* C13: when a termination signal or an exit key started the shutdown while
\* both watch instances were alive and the process has exited through it, a
\* termination request was sent to each instance, neither is alive any more,
\* and the exit code is 0.
C13_UserShutdownStopsBoth ==
  (exitedVia = "shutdown" /\ firstKind \in {"signal", "key"} /\ liveAtShutdown = LongRunning)
    => /\ \A p \in LongRunning : \E i \in At("kill") : sdTrace[i][2] = p
       /\ \A p \in LongRunning : procOs[p] = "exited"
       /\ exitCode = "0"

\* C14: a process that exited through shutdown() exited with the code of the
\* first trigger: 0 when that was a signal or an exit key, and the failing watch
\* instance's own non-zero exit code when that was its exit; later triggers do
\* not change it.
C14_ExitCodeOfFirstTrigger ==
  exitedVia = "shutdown" =>
    /\ firstKind \in {"signal", "key"} \cup LongRunning
    /\ firstKind \in {"signal", "key"} => exitCode = "0"
    /\ firstKind \in LongRunning =>
          (exitCode = procCode[firstKind] /\ exitCode \notin {"0", "null", "none"})

\* C14 witness: the compiler's watch instance exited with code 2 and started
\* the shutdown; a signal and the other instance's exit with code 1 arrived
\* while it was in progress; the process exited with code 2.
C14_Witness ==
  /\ exitedVia = "shutdown" /\ exitCode = "2"
  /\ firstKind = "tsc"
  /\ {"0", "1"} \subseteq lateCodes

\* The exit event of watch instance p is handled in this step, in the
\* WatchRunning state with no shutdown in progress.
CrashStep(p) ==
  /\ phase = "WatchRunning" /\ ~inProgress
  /\ procOs[p] = "alive" /\ procOs'[p] = "exited"

\* C15 as stated: every exit of a watch instance in the WatchRunning state
\* starts the shutdown with that instance's exit code.
C15_AnyExitTriggersShutdown ==
  [][\A p \in LongRunning :
       CrashStep(p) => (inProgress' /\ firstKind' = p /\ sdCode' = procCode'[p])]_vars

\* C15 amended: an exit of a watch instance with a non-zero exit code (not 0,
\* and not ended by a signal) in the WatchRunning state starts the shutdown with
\* that code, and the process then exits with it; an exit with code 0 or by a
\* signal starts nothing.
C15_FailingExitTriggersShutdown ==
  /\ [][\A p \in LongRunning : CrashStep(p) =>
          IF procCode'[p] \notin {"0", "null"}
            THEN inProgress' /\ firstKind' = p /\ sdCode' = procCode'[p]
                 /\ teardownRuns' = teardownRuns + 1
            ELSE ~inProgress' /\ teardownRuns' = teardownRuns]_vars
  /\ [](\A p \in LongRunning :
          (exitedVia = "shutdown" /\ firstKind = p) => exitCode = procCode[p])

\* C15 witness: the alias resolver's watch instance exited with code 2, which
\* started the shutdown, and the process has exited with code 2.
C15_Witness ==
  /\ firstKind = "alias" /\ procCode["alias"] = "2"
  /\ exitedVia = "shutdown" /\ exitCode = "2"
  /\ At("closeWatcher") # {}

\* C16: in the initial build of either mode the alias resolver has been
\* started only if the compiler has exited successfully; the two are never alive
\* together; after a failed compiler run the alias resolver is not started.
C16_AliasOnlyAfterCompiler ==
  /\ procOs["alias1"] # "none" => (procOs["tsc1"] = "exited" /\ procCode["tsc1"] = "0")
  /\ ~(procOs["tsc1"] = "alive" /\ procOs["alias1"] = "alive")
  /\ procCode["tsc1"] \notin {"none", "0"} => procOs["alias1"] = "none"

\* C16 witness: watch mode, the compiler has exited with code 0 and the alias
\* resolver of the initial build is running.
C16_Witness ==
  /\ watch /\ phase = "RunAlias"
  /\ procCode["tsc1"] = "0" /\ procOs["alias1"] = "alive"

\* C17: whenever the compiler of the initial build has been started, in
\* either mode, the output directory was empty at the moment it was spawned.
C17_OutputEmptyAtCompilerStart ==
  procOs["tsc1"] # "none" => outAtSpawn = "empty"

\* C17 witness: the output directory held a previous build's files when
\* build() was called, and the compiler has been started.
C17_Witness ==
  /\ procOs["tsc1"] = "alive" /\ outAtSpawn = "empty" /\ outDir = "empty"
  /\ outAtStart = "stale"

\* ------------------------------------------------ initial build: vocabulary
Failed(p) == procCode[p] \notin {"none", "0"}
StepFailed == Failed("tsc1") \/ Failed("alias1")

\* C18: one-shot mode; when the compiler or the alias resolver failed and the
\* orchestrator has terminated, the output directory is empty, unless the
\* removal itself could not be carried out.
C18_FailedOneShotLeavesNoOutput ==
  (~watch /\ ~Alive /\ StepFailed /\ surfaced # "rm") => outDir = "empty"

\* C19: one-shot mode; after a failed step the build never counts as done, and
\* once the orchestrator has terminated it printed the failing process's error
\* and exited with a non-zero code; when both steps succeeded and it has
\* terminated, the build was done and the exit code is 0.
C19_OneShotFailureIsFatal ==
  ~watch =>
    /\ StepFailed => phase # "OneShotDone"
    /\ (StepFailed /\ ~Alive) =>
          (surfaced = FailedStep(OState) /\ exitCode \notin {"0", "none"})
    /\ (procCode["tsc1"] = "0" /\ procCode["alias1"] = "0" /\ ~Alive) =>
          (phase = "OneShotDone" /\ exitCode = "0")

\* C20: watch mode; the step in which run() rejects during the initial build
\* writes the failure to the display, starts no shutdown and leaves the
\* orchestrator in WatchRunning with both watch instances spawned and the
\* watcher open; a failed initial build is never the error build() rejects with.
C20_WatchToleratesInitialFailure ==
  /\ [][(watch /\ phase \in {"TscGrace", "AliasGrace"} /\ phase' # phase) =>
          /\ phase' = "WatchRunning" /\ warned'
          /\ ~inProgress' /\ teardownRuns' = 0 /\ exitCode' = "none"
          /\ \A p \in LongRunning : procOs'[p] = "alive"
          /\ watcher' = "open"]_vars
  /\ [](watch => surfaced \notin OneShot)
  /\ []((watch /\ StepFailed /\ phase = "WatchRunning") => warned)

\* C20 witness: watch mode, the alias resolver of the initial build exited with
\* code 1, and the orchestrator is in WatchRunning with both instances alive.
C20_Witness ==
  /\ watch /\ phase = "WatchRunning" /\ Failed("alias1") /\ warned
  /\ ~inProgress /\ watcher = "open"
  /\ \A p \in LongRunning : procOs[p] = "alive"

\* A removal of a file or of a directory has failed.
RemovalFailed ==
  \/ \E c \in Calls : opResult[c] = "failed"
  \/ lastRemoval.kind # "none" /\ lastRemoval.err

\* C21: after a removal of a file's output or of a directory has failed, the
\* watch session goes on: no shutdown has been started, the process lives, the orchestrator is in WatchRunning with
\* the watcher open; and a deletion event that arrives after the failure is
\* taken up as usual, its removal starting at once when no removal for its path
\* is in flight.
C21_SyncFailureKeepsSession ==
  /\ [](RemovalFailed =>
          /\ phase = "WatchRunning" /\ exitCode = "none"
          /\ ~inProgress /\ teardownRuns = 0 /\ watcher = "open")
  /\ [][\A d \in Calls :
          (callState[d] = "idle" /\ callState'[d] # "idle" /\ RemovalFailed)
            => IF MapHas(operationQueue, callKey'[d])
                 THEN callState'[d] = "awaitExisting"
                 ELSE callState'[d] = "running"]_vars

\* C21 witness: a file's removal failed; a deletion event for the same path
\* arrived afterwards and its removal has completed; the removal of a directory
\* failed last; the session is still running.
C21_Witness ==
  /\ phase = "WatchRunning" /\ exitCode = "none" /\ ~inProgress
  /\ \E c, d \in Calls :
       /\ c < d /\ callKey[c] = callKey[d]
       /\ opResult[c] = "failed" /\ opResult[d] = "ok"
       /\ callState[d] = "resolved"
  /\ lastRemoval.kind = "dir" /\ lastRemoval.err

\* C22: no call is reported as failed, its removal skipped, because of the
\* failure of a removal for a different path: a rejected call carries the error
\* of an operation on its own path.
C22_FailureStaysWithItsPath ==
  \A d \in Calls :
    callState[d] = "rejected" => callKey[callErr[d]] = callKey[d]

\* ------------------------------------------------ deletion mirroring: vocabulary
\* The position under the output directory that mirrors a path under the
\* source directory, written without path.relative and path.join.
Mirror(srcPath) == outDirAbs \o SubSeq(srcPath, Len(rootDirAbs) + 1, Len(srcPath))
Under(t, q) == {f \in t : IsPrefix(q, f)}
\* The files a build emitted for a source file, as listed in OutBuilt.
BuiltFor(srcFile) ==
  {f \in OutBuilt : Front(f) = Front(Mirror(srcFile)) /\ Head(Last(f)) = Head(Last(srcFile))}
Done(kind) == lastRemoval.kind = kind
SourceFile(q) == Lower(Last(Last(q))) \in TsExts

\* C23: the removal for a deleted source file with a recognized extension is
\* the operation of a call keyed by that file's path; unless rm itself failed
\* it completes without error, whether or not the files were there, and none
\* of the files emitted for the source file is left in the output tree.
C23_SourceDeletionRemovesArtifacts ==
  (Done("file") /\ SourceFile(lastRemoval.path)) =>
    /\ \E c \in Calls : callKey[c] = lastRemoval.path /\ Settled(c) /\ Started(c)
    /\ lastRemoval.faulty \cap BuiltFor(lastRemoval.path) = {} =>
          (~lastRemoval.err /\ outTree \cap BuiltFor(lastRemoval.path) = {})

\* C23 witness: a.b.ts was deleted twice; both removals completed, the second
\* one finding nothing to remove, and the files of b.ts are gone from a tree
\* that a build had filled.
C23_Witness ==
  /\ Done("file") /\ lastRemoval.path = SrcA \o << <<"b", "ts">> >>
  /\ \A c \in Calls : callState[c] = "resolved" /\ callKey[c] = lastRemoval.path
  /\ lastRemoval.gone = {} /\ ~lastRemoval.err
  /\ OutA \o << <<"x", "js">> >> \in outTree
  /\ outTree \cap BuiltFor(lastRemoval.path) = {}

\* C24: the removal for a deleted file that is not a source file takes away
\* the one output path that mirrors it and nothing else.
C24_AssetDeletionRemovesOnePath ==
  (Done("file") /\ ~SourceFile(lastRemoval.path) /\ ~lastRemoval.err) =>
    /\ lastRemoval.gone \subseteq {Mirror(lastRemoval.path)}
    /\ Mirror(lastRemoval.path) \notin outTree

\* C24 witness: assets/logo.png was deleted; its copy is gone and the other
\* asset and the emitted files are still there.
C24_Witness ==
  /\ Done("file") /\ lastRemoval.path = SrcAssets \o << <<"logo", "png">> >>
  /\ lastRemoval.gone = {outDirAbs \o << <<"assets">>, <<"logo", "png">> >>}
  /\ outTree = OutBuilt \ lastRemoval.gone

\* C25: the deletion of a source directory starts the removal of the mirrored
\* output directory in the same step and without touching the operation queue,
\* whatever the queue holds; the removal takes away everything under the
\* mirrored directory and nothing else, and completes without error when the
\* directory is already absent.
C25_DirectoryRemovedOutsideQueue ==
  /\ [][\A d \in SrcDirs :
          ((d \in dirRemovals) # (d \in dirRemovals')) =>
             UNCHANGED <<operationQueue, callState, callKey, reactions>>]_vars
  /\ [](Done("dir") =>
          (Mirror(lastRemoval.path) \notin lastRemoval.faulty =>
             /\ ~lastRemoval.err
             /\ Under(outTree, Mirror(lastRemoval.path)) = {}
             /\ \A f \in lastRemoval.gone : IsPrefix(Mirror(lastRemoval.path), f)))

\* C25 witness: directory a was deleted while the removal for a/b.ts was
\* running in the queue, and again when its mirror was already gone.
C25_Witness ==
  /\ Done("dir") /\ lastRemoval.path = SrcA /\ lastRemoval.gone = {}
  /\ ~lastRemoval.err
  /\ Under(outTree, OutA) = {} /\ Under(outTree, outDirAbs) # {}
  /\ \E c \in Calls : Running(c) /\ callKey[c] = SrcA \o << <<"b", "ts">> >>

\* C27: rmIfExists on a path that does not exist raises no error and changes
\* nothing, and a second rmIfExists of a path leaves the tree as the first left it.
C27_RmIfExistsIdempotent ==
  \A q \in {Mirror(d) : d \in SrcDirs} \cup OutBuilt \cup {outDirAbs} :
    LET once == rmIfExists(outTree, q, FALSE)
        twice == rmIfExists(once.tree, q, FALSE)
    IN  /\ ~Exists(outTree, q) => (~once.err /\ once.tree = outTree)
        /\ ~once.err /\ ~twice.err /\ twice.tree = once.tree
        /\ ~Exists(once.tree, q)

\* C27 witness: the mirrored assets directory was removed when it was already
\* absent from a tree that a build had filled: no error, nothing changed.
C27_Witness ==
  /\ Done("dir") /\ lastRemoval.path = SrcAssets
  /\ lastRemoval.gone = {} /\ ~lastRemoval.err /\ lastRemoval.faulty = {}
  /\ outTree # {} /\ ~Exists(outTree, outDirAbs \o << <<"assets">> >>)

\* C26: for a source file with a recognized extension under the source
\* directory, removeEmittedForSource removes exactly one path for each entry of
\* EMITTED_SUFFIXES: the mirrored path with the source extension taken off and
\* the suffix put on; the paths are distinct.
C26_OnePathPerSuffixMirrored ==
  pathOut # {} =>
    /\ Cardinality(pathOut) = Len(EMITTED_SUFFIXES)
    /\ pathOut = {Front(Mirror(pathIn)) \o <<Front(Last(pathIn)) \o EMITTED_SUFFIXES[i]>> :
                    i \in DOMAIN EMITTED_SUFFIXES}
    /\ \A q \in pathOut : IsPrefix(outDirAbs, q) /\ Len(q) = Len(pathIn)

\* C26 witness: src/a/lib.ts/b.d.TS, a declaration file with an upper-case
\* extension in a directory whose name ends in .ts, gives dist/a/lib.ts/b.d.d.ts
\* among its paths.
C26_Witness ==
  /\ pathIn = rootDirAbs \o << <<"a">>, <<"lib", "ts">>, <<"b", "d", "TS">> >>
  /\ (outDirAbs \o << <<"a">>, <<"lib", "ts">>, <<"b", "d", "d", "ts">> >>) \in pathOut

\* The captured output consists of white space only.
Blank(out) == \A i \in DOMAIN out : out[i] = " "
\* text is out without the white space at its two ends.
Trimmed(out, text) ==
  /\ text # <<>> /\ Head(text) # " " /\ Last(text) # " "
  /\ \E i, j \in DOMAIN out :
       /\ SubSeq(out, i, j) = text
       /\ \A k \in DOMAIN out : (k < i \/ k > j) => out[k] = " "

\* C28: run() has resolved only if the child exited with code 0; after any
\* other exit it does not resolve, and when it has rejected the error message
\* is the captured output without surrounding white space, or, when nothing
\* but white space was captured, a message naming the command and the exit code.
C28_RunResolvesOnlyOnZero ==
  /\ runState = "resolved" => runCode = "0"
  /\ runCode \notin {"none", "0"} => runState \in {"grace", "rejected"}
  /\ (runState = "rejected" /\ runCode # "none") =>
        IF Blank(runOutput)
          THEN runError = [kind |-> "failedWithExitCode", cmd |-> runCmd, code |-> runCode]
          ELSE runError.kind = "captured" /\ Trimmed(runOutput, runError.text)

\* C28 witness: tsc-alias was ended by a signal after writing " e " and run()
\* rejected with "e".
C28_Witness ==
  /\ runCmd = "tsc-alias" /\ runCode = "null" /\ runState = "rejected"
  /\ runOutput = <<" ", "e", " ">>
  /\ runError = [kind |-> "captured", text |-> <<"e">>]

\* C29: in watch mode what shutdown() writes to the console before the
\* display is destroyed goes to the display, and what it writes afterwards, its
\* status lines, goes to the real standard output.
C29_StatusLinesReachTerminal ==
  watch =>
    \A i \in At("out") :
      IF \E j \in At("destroyUi") : j < i
        THEN sdTrace[i][2] = "stdout"
        ELSE sdTrace[i][2] = "display"

\* C30: the body of shutdown() is entered only in the WatchRunning state, never
\* during the initial build or a one-shot build, and once the process has
\* exited nothing changes any more.
C30_ShutdownOnlyFromWatchRunning ==
  /\ [](teardownRuns > 0 => (watch /\ phase = "WatchRunning"))
  /\ [][exitCode # "none" => UNCHANGED vars]_vars

\* A watch instance failed: a failing exit code, or it could not be started.
ToolFailure(p) == procCode[p] \in {"1", "2", "error"}

\* C31: a failure of the compiler or the alias resolver outside the watch-mode
\* initial pass is never dropped: a watch instance that failed (failing exit or
\* failure to start) has triggered a shutdown, and a one-shot build in which a
\* step failed ends through the fatal failure that main reports.
C31_ToolFailuresSurface ==
  /\ \A p \in LongRunning : ToolFailure(p) => (inProgress /\ firstCode # "none")
  /\ (~watch /\ ~Alive /\ StepFailed) => exitedVia = "main"

\* C32: build() gets as far as cleaning the output directory only when the
\* output directory is a non-empty path that differs from the source
\* directory, and a tsconfig without outDir or without rootDir is refused before
\* the output directory is touched.
C32_ConfigValidatedBeforeClean ==
  /\ rmTarget # Nothing => (~Falsy(rmTarget) /\ rmTarget # dirs.rootDirAbs)
  /\ MissingDir(options.outDir, options.rootDir) =>
       (rmTarget = Nothing /\ cfg.kind \in {"none", "error"} /\ dirs = Nothing)

\* --------------------------------------------------- command line: vocabulary
IsWatchFlag(t) == t = <<"-", "w">> \/ t = <<"-", "-", "watch">>
IsProjectFlag(t) == t = <<"-", "p">> \/ t = <<"-", "-", "project">>
IsHelpFlag(t) == t = <<"-", "h">> \/ t = <<"-", "-", "help">>
Positions == 1 .. Len(argv)
Parsed == args # Nothing
\* -p/--project at position i is the last token or is followed by a flag-like token
LacksPath(i) ==
  IsProjectFlag(argv[i]) /\ (i = Len(argv) \/ StartsWith(argv[i + 1], "-"))
\* ... or is followed by an empty token
LacksUsablePath(i) ==
  IsProjectFlag(argv[i]) /\ (i = Len(argv) \/ argv[i + 1] = <<>> \/ StartsWith(argv[i + 1], "-"))
\* The process ended with a non-zero code and build() was never called.
RefusedBeforeBuild ==
  /\ exitCode \notin {"none", "0"} /\ mainPc = "done"
  /\ phase = "Idle" /\ \A p \in Procs : procOs[p] = "none"
\* The token after the last -p/--project, as args.project
LastProject ==
  IF \E i \in Positions : IsProjectFlag(argv[i])
    THEN LET i == CHOOSE k \in Positions :
                    IsProjectFlag(argv[k]) /\ \A m \in Positions : IsProjectFlag(argv[m]) => m <= k
         IN  [kind |-> "string", text |-> argv[i + 1]]
    ELSE [kind |-> "undefined"]

\* C33 as stated: once parseArgs has run, a -p/--project that is the last token
\* or is followed by a token starting with "-" has raised the usage error and
\* the process exits non-zero before any build step; otherwise no usage error
\* is raised and the token after -p is the project path.
C33_MissingPathIsUsageError ==
  Parsed =>
    IF \E i \in Positions : LacksPath(i)
      THEN args.kind = "usageError" /\ (~Alive => RefusedBeforeBuild)
      ELSE /\ args.kind # "usageError"
           /\ args.kind = "args" => args.project = LastProject

\* C33 amended: the usage error is raised when a -p/--project with no help flag
\* before it is the last token or is followed by an empty token or one starting
\* with "-", and then the process exits with code 1 before any build step; a
\* help flag that comes first ends the process with code 0 instead; otherwise
\* parseArgs returns, the token after the last -p is the project path and it
\* is not read as a flag.
C33_UsageErrorUnlessHelpFirst ==
  Parsed =>
    IF \E i \in Positions : LacksUsablePath(i) /\ \A j \in 1 .. (i - 1) : ~IsHelpFlag(argv[j])
      THEN args.kind = "usageError" /\ exitCode = "1" /\ RefusedBeforeBuild
    ELSE IF \E i \in Positions : IsHelpFlag(argv[i])
      THEN args.kind = "help" /\ exitCode = "0" /\ mainPc = "done" /\ phase = "Idle"
    ELSE /\ args.kind = "args" /\ Alive
         /\ args.project = LastProject
         /\ args.watch = (\E i \in Positions : IsWatchFlag(argv[i]))

\* bldr -w -p -x was refused with the usage error.
C33_Witness ==
  /\ argv = << <<"-", "w">>, <<"-", "p">>, <<"-", "x">> >>
  /\ args.kind = "usageError" /\ exitCode = "1" /\ surfaced = "usage"

\* bldr --project t -w: the path is taken and build() is called in watch mode.
C33_WitnessPath ==
  /\ argv = << <<"-", "-", "project">>, <<"t">>, <<"-", "w">> >>
  /\ mainPc = "building" /\ watch /\ args.project = [kind |-> "string", text |-> <<"t">>]

\* killProcess went past its guard for p: it called p.kill() and waits for p.
Stopped(p) ==
  \/ \E i \in At("kill") : sdTrace[i][2] = p
  \/ killWait[p] \in {"pending", "exitSeen", "timedOut"}

\* C34: shutdown() sends its termination request to, and waits for the exit
\* of, only the watch instances that were alive when it began; the instance
\* whose own failing exit triggered the shutdown is neither signalled nor
\* waited for.
C34_OnlyLiveProcessesStopped ==
  \A p \in LongRunning :
    /\ Stopped(p) => p \in liveAtShutdown
    /\ firstKind = p => ~Stopped(p)

\* C35: a call made for a key after a call whose operation fails does not
\* receive that operation's error: once the earlier call has settled the later
\* one has started its own operation, and it settles with its own outcome.
C35_LaterCallSurvivesEarlierFailure ==
  \A c, d \in Calls :
    (c < d /\ callKey[c] = callKey[d] /\ Enqueued(d) /\ opResult[c] = "failed") =>
      /\ callErr[d] # c
      /\ callState[d] # "rejected" \/ opResult[d] = "failed"
      /\ callState[d] = "awaitExisting" =>
           \E e \in Calls : Running(e) /\ callKey[e] = callKey[d]

\* C36: whatever the calls of queuedOperation, calls repeated for one key
\* while the map is at or near the ceiling included, no more than
\* MAX_CONCURRENT_OPERATIONS operations execute at a time.
C36_CeilingForAnyCalls ==
  RunningCount <= MAX_CONCURRENT_OPERATIONS

\* C37: once the body of shutdown() has been entered the process exits: a
\* watcher whose close() fails does not stop the sequence, and a watch instance
\* that never emits an exit event holds it up only until its timer fires.
C37_ShutdownReachesExit ==
  inProgress ~> exitCode # "none"

\* C37 witness: shutdown() ran to process.exit although close() failed and no
\* exit event of the compiler's watch instance was ever seen.
C37_Witness ==
  /\ exitedVia = "shutdown" /\ watcher = "closeFailed"
  /\ killWait["tsc"] = "timedOut" /\ procCode["tsc"] = "none"

\* C38: once shutdown() has destroyed the display nothing is written to it:
\* no output or error event of a watch instance reaches a box, no console.log
\* or console.error call is routed to it, and no initial-build failure is
\* reported on it.
C38_NoWriteAfterTeardown ==
  /\ [](outputTo # "destroyed")
  /\ [](\A i \in At("out") :
          sdTrace[i][2] = "display" => \A j \in At("destroyUi") : i < j)
  /\ [][ui = "destroyed" => (warned' = warned /\ outputTo' \in {outputTo, "dropped"})]_vars

\* C38 witness: the compiler's watch instance was alive when shutdown() began;
\* its error event came after the display was destroyed and was dropped, as was
\* what shutdown() wrote to the console.
C38_Witness ==
  /\ ui = "destroyed" /\ outputTo = "dropped"
  /\ "tsc" \in liveAtShutdown /\ procCode["tsc"] = "error"
  /\ \E i \in At("out") : sdTrace[i][2] = "dropped"

====
